---- MODULE Spec2Model ----
(***************************************************************************)
(* Model of the "big three" chart service: src/api/bigthree.js holds two   *)
(* request handlers (the plain handler, lines 61-107, called variant "A",  *)
(* and the geocoding handler, lines 183-251, variant "B") and              *)
(* src/unnamed/part_000 holds a third (variant "C").  The angle helpers    *)
(* norm360, signFromLon and ascendantLongitudeDeg are modelled as          *)
(* operators, the handlers as step actions over one request.               *)
(***************************************************************************)
EXTENDS Integers, Sequences, FiniteSets, TLC

VARIABLES variant, req, pc, env, res, calls, escaped, probe

vars == <<variant, req, pc, env, res, calls, escaped, probe>>

(***************************************************************************)
(* JavaScript numbers.  A JS number is a binary floating-point value: the  *)
(* model keeps the format (round to nearest, ties to even, after every     *)
(* addition; an exact remainder) and scales the mantissa down from 53 bits *)
(* to Prec bits.  A number is held as an integer count of units of         *)
(* 2^-FracBits degree; a value is representable when it has at most Prec   *)
(* significant bits.                                                       *)
(***************************************************************************)
Prec == 10

FracBits == 4

MaxAngleDeg == 800

RECURSIVE Pow2(_)
Pow2(n) == IF n <= 0 THEN 1 ELSE 2 * Pow2(n - 1)

Scale == Pow2(FracBits)

\* d degrees as a count of units
Deg(d) == d * Scale

RECURSIVE BitLen(_)
BitLen(a) == IF a <= 0 THEN 0 ELSE 1 + BitLen(a \div 2)

Abs(v) == IF v < 0 THEN -v ELSE v

\* Round to nearest representable value, ties to the even mantissa.
Round(v) ==
    LET a  == Abs(v)
        bl == BitLen(a)
    IN  IF bl <= Prec THEN v
        ELSE LET g == Pow2(bl - Prec)
                 q == a \div g
                 r == a % g
                 m == IF 2 * r < g THEN q
                      ELSE IF 2 * r > g THEN q + 1
                      ELSE IF q % 2 = 0 THEN q ELSE q + 1
             IN  IF v < 0 THEN -(m * g) ELSE m * g

Representable(v) == Round(v) = v

\* JS a + b
FAdd(a, b) == Round(a + b)

\* JS a % m for m > 0: exact, with the sign of the dividend
JsMod(a, m) == IF a >= 0 THEN a % m ELSE -((-a) % m)

(***************************************************************************)
(* Angle helpers                                                           *)
(***************************************************************************)
SIGNS_FR ==
    << "Belier", "Taureau", "Gemeaux", "Cancer", "Lion", "Vierge",
       "Balance", "Scorpion", "Sagittaire", "Capricorne", "Verseau", "Poissons" >>

\* function norm360(x) { x = x % 360; return x < 0 ? x + 360 : x; }
norm360(x) ==
    LET r == JsMod(x, Deg(360))
    IN  IF r < 0 THEN FAdd(r, Deg(360)) ELSE r

\* const lon = ((lonDeg % 360) + 360) % 360;
inlineNorm(lonDeg) == JsMod(FAdd(JsMod(lonDeg, Deg(360)), Deg(360)), Deg(360))

\* Math.floor(lon / 30): the floor of the correctly rounded quotient is the
\* floor of the exact quotient (30k / 30 is exact and the rounding is monotone)
sectorIndex(lon) == lon \div Deg(30)

\* SIGNS_FR[k]: JS arrays are 0-based and an index out of range reads undefined
signAt(k) == IF k + 1 \in DOMAIN SIGNS_FR THEN SIGNS_FR[k + 1] ELSE "undefined"

signFromLon(lonDeg) == signAt(sectorIndex(inlineNorm(lonDeg)))

(***************************************************************************)
(* Trigonometry.  Only the sign of a sine, cosine or tangent is modelled,  *)
(* which decides atan2 exactly when the vector lies on an axis: the model  *)
(* keeps the local sidereal time on multiples of 90 degrees and the        *)
(* latitude at 0, where this is the case.                                  *)
(***************************************************************************)
\* JS a * k for an integer factor k
FMul(a, k) == Round(a * k)

\* sign of Math.sin(theta * PI / 180)
sinSgn(theta) ==
    LET t == theta % Deg(360)
    IN  IF t % Deg(180) = 0 THEN 0 ELSE IF t < Deg(180) THEN 1 ELSE -1

\* sign of Math.cos(theta * PI / 180)
cosSgn(theta) == sinSgn(theta + Deg(90))

\* sign of Math.tan(lat * PI / 180) for a latitude in (-90, 90)
tanSgn(lat) == IF lat = 0 THEN 0 ELSE IF lat > 0 THEN 1 ELSE -1

\* Math.atan2(y, x) in degrees.  From the signs alone the angle is exact on the
\* axes (and 0 at the origin); off the axes only the quadrant is known and its
\* bisector stands for it, a case the inputs of this model never produce.
atan2Deg(y, x) ==
    IF y = 0 THEN (IF x < 0 THEN Deg(180) ELSE 0)
    ELSE IF x = 0 THEN (IF y > 0 THEN Deg(90) ELSE -Deg(90))
    ELSE IF x > 0 THEN (IF y > 0 THEN Deg(45) ELSE -Deg(45))
    ELSE (IF y > 0 THEN Deg(135) ELSE -Deg(135))

\* norm360(Astronomy.SiderealTime(t) * 15); stHours is the collaborator's answer
gmstDegrees(stHours) == norm360(FMul(stHours, 15))

\* epsArcsec / 3600 with epsArcsec = 84381.448 - 46.8150 T - ...; T in centuries
meanObliquityDeg(T) == ((84381 - 47 * T) * Scale) \div 3600

\* src/api/bigthree.js, plain handler
ascendantLongitudeDeg(stHours, T, latDeg, lonDeg) ==
    LET theta == FAdd(gmstDegrees(stHours), lonDeg)
        eps   == meanObliquityDeg(T)
        y     == sinSgn(theta) * cosSgn(eps) - tanSgn(latDeg) * sinSgn(eps)
        x     == cosSgn(theta)
        lam   == atan2Deg(y, x)
    IN  norm360(lam)

\* src/api/bigthree.js, geocoding handler
ascendantLongitudeDegGeo(stHours, T, latDeg, lonDeg) ==
    LET lstDeg == norm360(FAdd(gmstDegrees(stHours), lonDeg))
        epsDeg == meanObliquityDeg(T)
        lam    == atan2Deg(
                    cosSgn(lstDeg),
                    -(sinSgn(lstDeg) * cosSgn(epsDeg) + tanSgn(latDeg) * sinSgn(epsDeg)))
    IN  norm360(lam)

\* src/unnamed/part_000
ascendantLongitudeDegC(stHours, T, latDeg, lonDeg) ==
    LET theta == FAdd(gmstDegrees(stHours), lonDeg)
        eps   == meanObliquityDeg(T)
        y     == sinSgn(theta) * cosSgn(eps) - tanSgn(latDeg) * sinSgn(eps)
        x     == cosSgn(theta)
        lam   == atan2Deg(y, x)
    IN  norm360(lam)

ascendantOf(v, stHours, T, latDeg, lonDeg) ==
    CASE v = "A" -> ascendantLongitudeDeg(stHours, T, latDeg, lonDeg)
      [] v = "B" -> ascendantLongitudeDegGeo(stHours, T, latDeg, lonDeg)
      [] OTHER   -> ascendantLongitudeDegC(stHours, T, latDeg, lonDeg)

(***************************************************************************)
(* JavaScript values and strings.  A value is a record: t is its typeof    *)
(* ("undef", "str", "num"), s the characters of a string, n a number in    *)
(* units, nan whether the number is NaN.                                   *)
(***************************************************************************)
Undef == [t |-> "undef", s |-> <<>>, n |-> 0, nan |-> FALSE]

Str(chars) == [t |-> "str", s |-> chars, n |-> 0, nan |-> FALSE]

Num(v) == [t |-> "num", s |-> <<>>, n |-> v, nan |-> FALSE]

NaN == [t |-> "num", s |-> <<>>, n |-> 0, nan |-> TRUE]

\* typeof v === "number" (true of NaN)
IsNumber(v) == v.t = "num"

\* !v for undefined and for strings
Falsy(v) == v.t = "undef" \/ (v.t = "str" /\ v.s = <<>>)

Digits == << "0", "1", "2", "3", "4", "5", "6", "7", "8", "9" >>

IsDigit(c) == \E i \in DOMAIN Digits : Digits[i] = c

DigitVal(c) == (CHOOSE i \in DOMAIN Digits : Digits[i] = c) - 1

RECURSIVE DigitsVal(_)
DigitsVal(cs) ==
    IF cs = <<>> THEN 0
    ELSE 10 * DigitsVal(SubSeq(cs, 1, Len(cs) - 1)) + DigitVal(cs[Len(cs)])

\* s.includes(c)
Includes(cs, c) == \E i \in DOMAIN cs : cs[i] = c

\* s.split(c)
RECURSIVE Split(_, _)
Split(cs, c) ==
    IF ~Includes(cs, c) THEN << cs >>
    ELSE LET i == CHOOSE j \in DOMAIN cs :
                      cs[j] = c /\ \A k \in 1..(j - 1) : cs[k] # c
         IN  << SubSeq(cs, 1, i - 1) >> \o Split(SubSeq(cs, i + 1, Len(cs)), c)

\* s.trim()
RECURSIVE Trim(_)
Trim(cs) ==
    IF cs = <<>> THEN cs
    ELSE IF Head(cs) = " " THEN Trim(Tail(cs))
    ELSE IF cs[Len(cs)] = " " THEN Trim(SubSeq(cs, 1, Len(cs) - 1))
    ELSE cs

\* Number(s) of a string: "" is 0, decimal digits their value, anything else NaN.
\* The value is a plain integer (an hour, a minute), not an angle.
Number(cs) ==
    IF \A i \in DOMAIN cs : IsDigit(cs[i]) THEN Num(DigitsVal(cs)) ELSE NaN

\* String(n) of a non-negative integer or NaN
RECURSIVE NatStr(_)
NatStr(n) ==
    IF n < 10 THEN << Digits[n + 1] >>
    ELSE NatStr(n \div 10) \o << Digits[(n % 10) + 1] >>

String(v) == IF v.nan THEN << "N", "a", "N" >> ELSE NatStr(v.n)

\* s.padStart(2, "0")
padStart2(cs) ==
    IF Len(cs) >= 2 THEN cs
    ELSE IF Len(cs) = 1 THEN << "0" >> \o cs
    ELSE << "0", "0" >>

(***************************************************************************)
(* Collaborators: tz-lookup, luxon, astronomy-engine and the geocoding     *)
(* service.  Each is modelled by the answers it can give at the call.      *)
(***************************************************************************)
\* tzlookup(lat, lon): a RangeError unless -90 <= lat <= 90 and -180 <= lon <= 180
\* (false of NaN), otherwise the zone of the point
tzlookup(lat, lon) ==
    IF lat.nan \/ lon.nan
       \/ ~(lat.n >= -Deg(90) /\ lat.n <= Deg(90))
       \/ ~(lon.n >= -Deg(180) /\ lon.n <= Deg(180))
    THEN [throws |-> TRUE, tz |-> ""]
    ELSE [throws |-> FALSE,
          tz |-> IF lon.n < 0 THEN "Pacific/Galapagos"
                 ELSE IF lon.n = 0 THEN "Etc/GMT" ELSE "Etc/GMT-6"]

DaysInMonth(y, m) ==
    IF m = 2 THEN (IF (y % 4 = 0 /\ y % 100 # 0) \/ y % 400 = 0 THEN 29 ELSE 28)
    ELSE IF m \in {4, 6, 9, 11} THEN 30 ELSE 31

\* DateTime.fromISO(iso, {zone}).isValid for the form YYYY-MM-DDTHH:MM
fromISOValid(iso) ==
    /\ Len(iso) = 16
    /\ \A i \in {1, 2, 3, 4, 6, 7, 9, 10, 12, 13, 15, 16} : IsDigit(iso[i])
    /\ iso[5] = "-" /\ iso[8] = "-" /\ iso[11] = "T" /\ iso[14] = ":"
    /\ LET y  == DigitsVal(SubSeq(iso, 1, 4))
           m  == DigitsVal(SubSeq(iso, 6, 7))
           d  == DigitsVal(SubSeq(iso, 9, 10))
           h  == DigitsVal(SubSeq(iso, 12, 13))
           mi == DigitsVal(SubSeq(iso, 15, 16))
       IN  /\ m \in 1..12
           /\ d >= 1 /\ d <= DaysInMonth(y, m)
           /\ h \in 0..23
           /\ mi \in 0..59

\* What the geocoding service can do with one query: the request or its JSON
\* decoding fails, it finds nothing, it finds a place, or it finds a place
\* whose coordinates do not read as numbers.
GeoOutcomes == {"reject", "nomatch", "match", "matchNaN"}

GeocodageImpossible == "Geocodage impossible. Essaie 'Ville, Pays'."

geocodePlace(place, outcome) ==
    CASE outcome = "reject"  ->
           [throws |-> TRUE, msg |-> "fetch failed", lat |-> Undef, lon |-> Undef]
      [] outcome = "nomatch" ->
           [throws |-> TRUE, msg |-> GeocodageImpossible, lat |-> Undef, lon |-> Undef]
      [] outcome = "match"   ->
           [throws |-> FALSE, msg |-> "", lat |-> Num(0), lon |-> Num(-Deg(90))]
      [] OTHER               ->
           [throws |-> FALSE, msg |-> "", lat |-> NaN, lon |-> NaN]

\* Ecliptic longitudes the ephemeris may answer (degrees, in [0, 360))
EclipticLons == { Deg(0), Deg(100), Deg(280) }

\* Sidereal times the ephemeris may answer (hours, in units)
SiderealHours == { Deg(0), Deg(6), Deg(12), Deg(18) }

(***************************************************************************)
(* Requests                                                                *)
(***************************************************************************)
Variants == {"A", "B", "C"}

Methods == {"GET", "POST", "OPTIONS", "PUT"}

Dates ==
    { Undef, Str(<<>>),
      Str(<< "2", "0", "0", "0", "-", "0", "1", "-", "0", "1" >>),
      Str(<< "2", "0", "2", "1", "-", "0", "2", "-", "3", "0" >>) }

Times ==
    { Undef,
      Str(<< "1", "4", ":", "3", "0" >>),
      Str(<< "1", "4", "3", "0" >>),
      Str(<< "2", "5", ":", "6", "1" >>) }

Lats == { Undef, Str(<< "0" >>), Num(0), Num(Deg(100)) }

Lons == { Undef, Num(0), Num(Deg(90)), Num(Deg(200)) }

Places == { Undef, Str(<< " ", " " >>), Str(<< " ", "Q", "u", "i", "t", "o" >>) }

Requests ==
    [method : Methods, date : Dates, time : Times, lat : Lats, lon : Lons,
     place : Places]

NoRequest ==
    [method |-> "", date |-> Undef, time |-> Undef, lat |-> Undef, lon |-> Undef,
     place |-> Undef]

(***************************************************************************)
(* The response object and the handler's locals                            *)
(***************************************************************************)
Blank ==
    [sent |-> 0, cors |-> FALSE, status |-> 0, kind |-> "none", error |-> "",
     tz |-> "", lat |-> Undef, lon |-> Undef,
     sunSign |-> "undefined", moonSign |-> "undefined", ascSign |-> "undefined"]

\* geo records what the geocoding service answered, "none" before any call
NoEnv ==
    [lat |-> Undef, lon |-> Undef, geo |-> "none", tz |-> "", hasTime |-> FALSE,
     sunSign |-> "undefined", moonSign |-> "null", ascSign |-> "null"]

NoCalls == [geo |-> 0, tz |-> 0, cal |-> 0, eph |-> 0]

NoProbe ==
    [op |-> "none", x |-> 0, st |-> 0, lon |-> 0, n |-> 0, inl |-> 0, k |-> 0,
     sign |-> "", ascA |-> 0, ascB |-> 0, ascC |-> 0]

\* res.status(status).json(body) / .end(): one more response sent
Sent(status, kind, body) ==
    [body EXCEPT !.sent = res.sent + 1, !.cors = res.cors,
                 !.status = status, !.kind = kind]

\* res.status(status).json({ error })
Reply(status, msg) ==
    /\ res' = Sent(status, "error", [Blank EXCEPT !.error = msg])
    /\ pc' = "done"

\* Mutant of Catch: the exception leaves the handler.
CatchRethrow(msg) ==
    /\ escaped' = TRUE
    /\ pc' = "done"
    /\ UNCHANGED res

\* catch (e) { return res.status(500).json({ error: String(e?.message || e) }); }
Catch(msg) ==
    /\ Reply(500, msg)
    /\ UNCHANGED escaped

(***************************************************************************)
(* The handlers, one request at a time.  pc is the handler's position.     *)
(***************************************************************************)
Init ==
    /\ variant \in Variants
    /\ req = NoRequest
    /\ pc = "idle"
    /\ env = NoEnv
    /\ res = Blank
    /\ calls = NoCalls
    /\ escaped = FALSE
    /\ probe = NoProbe

\* The platform calls the handler with a request.
Receive(r) ==
    /\ pc = "idle"
    /\ req' = r
    /\ pc' = IF variant = "B" THEN "cors" ELSE "method"
    /\ UNCHANGED <<variant, env, res, calls, escaped, probe>>

\* setCors(res), before the try block
setCors ==
    /\ pc = "cors"
    /\ res' = [res EXCEPT !.cors = TRUE]
    /\ pc' = "method"
    /\ UNCHANGED <<variant, req, env, calls, escaped, probe>>

\* if (req.method !== "POST") return res.status(405).json({ error: "POST only" });
MethodCheckA ==
    /\ pc = "method" /\ variant = "A"
    /\ IF req.method # "POST"
       THEN Reply(405, "POST only")
       ELSE pc' = "validate" /\ UNCHANGED res
    /\ UNCHANGED <<variant, req, env, calls, escaped, probe>>

\* OPTIONS (before the try block), GET, then anything but POST
MethodCheckB ==
    /\ pc = "method" /\ variant = "B"
    /\ IF req.method = "OPTIONS"
       THEN res' = Sent(200, "empty", Blank) /\ pc' = "done"
       ELSE IF req.method = "GET"
       THEN res' = Sent(200, "health", Blank) /\ pc' = "done"
       ELSE IF req.method # "POST"
       THEN Reply(405, "POST only")
       ELSE pc' = "validate" /\ UNCHANGED res
    /\ UNCHANGED <<variant, req, env, calls, escaped, probe>>

MethodCheckC ==
    /\ pc = "method" /\ variant = "C"
    /\ IF req.method = "GET"
       THEN res' = Sent(200, "health", Blank) /\ pc' = "done"
       ELSE IF req.method # "POST"
       THEN Reply(405, "POST only")
       ELSE pc' = "validate" /\ UNCHANGED res
    /\ UNCHANGED <<variant, req, env, calls, escaped, probe>>

\* if (!date || typeof lat !== "number" || typeof lon !== "number") ... 400
ValidateA ==
    /\ pc = "validate" /\ variant = "A"
    /\ IF Falsy(req.date) \/ ~IsNumber(req.lat) \/ ~IsNumber(req.lon)
       THEN Reply(400, "Missing date/lat/lon") /\ UNCHANGED env
       ELSE /\ env' = [env EXCEPT !.lat = req.lat, !.lon = req.lon]
            /\ pc' = "tz"
            /\ UNCHANGED res
    /\ UNCHANGED <<variant, req, calls, escaped, probe>>

ValidateC ==
    /\ pc = "validate" /\ variant = "C"
    /\ IF Falsy(req.date) \/ ~IsNumber(req.lat) \/ ~IsNumber(req.lon)
       THEN Reply(400, "Missing date/lat/lon") /\ UNCHANGED env
       ELSE /\ env' = [env EXCEPT !.lat = req.lat, !.lon = req.lon]
            /\ pc' = "tz"
            /\ UNCHANGED res
    /\ UNCHANGED <<variant, req, calls, escaped, probe>>

\* Mutant of needsGeocode: the coordinates given are not looked at.
needsGeocodeAnyPlace(lat, lon, place) ==
    /\ place.t = "str"
    /\ Trim(place.s) # <<>>

\* (typeof lat !== "number" || typeof lon !== "number")
\*   && typeof place === "string" && place.trim()
needsGeocode(lat, lon, place) ==
    /\ ~IsNumber(lat) \/ ~IsNumber(lon)
    /\ place.t = "str"
    /\ Trim(place.s) # <<>>

\* Lines 195-213 of the geocoding handler, up to the call of geocodePlace
ValidateB ==
    /\ pc = "validate" /\ variant = "B"
    /\ IF Falsy(req.date)
       THEN Reply(400, "Missing date") /\ UNCHANGED env
       ELSE IF needsGeocode(req.lat, req.lon, req.place)
       THEN /\ env' = [env EXCEPT !.lat = req.lat, !.lon = req.lon]
            /\ pc' = "geocode"
            /\ UNCHANGED res
       ELSE IF ~IsNumber(req.lat) \/ ~IsNumber(req.lon)
       THEN Reply(400, "Missing lat/lon or place") /\ UNCHANGED env
       ELSE /\ env' = [env EXCEPT !.lat = req.lat, !.lon = req.lon]
            /\ pc' = "tz"
            /\ UNCHANGED res
    /\ UNCHANGED <<variant, req, calls, escaped, probe>>

\* const geo = await geocodePlace(place.trim()); lat = geo.lat; lon = geo.lon;
\* then the check of line 211
Geocode ==
    /\ pc = "geocode"
    /\ calls' = [calls EXCEPT !.geo = @ + 1]
    /\ \E o \in GeoOutcomes :
         LET geo == geocodePlace(Trim(req.place.s), o)
         IN  IF geo.throws
             THEN Catch(geo.msg) /\ env' = [env EXCEPT !.geo = o]
             ELSE IF ~IsNumber(geo.lat) \/ ~IsNumber(geo.lon)
             THEN /\ Reply(400, "Missing lat/lon or place")
                  /\ env' = [env EXCEPT !.geo = o]
                  /\ UNCHANGED escaped
             ELSE /\ env' = [env EXCEPT !.geo = o, !.lat = geo.lat, !.lon = geo.lon]
                  /\ pc' = "tz"
                  /\ UNCHANGED <<res, escaped>>
    /\ UNCHANGED <<variant, req, probe>>

\* const tz = tzlookup(lat, lon);
TzLookup ==
    /\ pc = "tz"
    /\ calls' = [calls EXCEPT !.tz = @ + 1]
    /\ LET z == tzlookup(env.lat, env.lon)
       IN  IF z.throws
           THEN Catch("invalid coordinates") /\ UNCHANGED env
           ELSE /\ env' = [env EXCEPT !.tz = z.tz]
                /\ pc' = "time"
                /\ UNCHANGED <<res, escaped>>
    /\ UNCHANGED <<variant, req, probe>>

\* const hasTime = typeof time === "string" && time.includes(":");
HasTime(time) == time.t = "str" /\ Includes(time.s, ":")

\* const [hh, mm] = hasTime ? time.split(":").map(Number) : [12, 0];
HourMinute(time) ==
    IF HasTime(time)
    THEN LET parts == Split(time.s, ":") IN << Number(parts[1]), Number(parts[2]) >>
    ELSE << Num(12), Num(0) >>

\* `${date}T${String(hh).padStart(2, "0")}:${String(mm).padStart(2, "0")}`
IsoOf(date, time) ==
    LET hm == HourMinute(time)
    IN  date.s \o << "T" >> \o padStart2(String(hm[1])) \o << ":" >>
               \o padStart2(String(hm[2]))

\* DateTime.fromISO(...); if (!local.isValid) return 400
ResolveTime ==
    /\ pc = "time"
    /\ calls' = [calls EXCEPT !.cal = @ + 1]
    /\ IF ~fromISOValid(IsoOf(req.date, req.time))
       THEN Reply(400, "Invalid date/time") /\ UNCHANGED env
       ELSE /\ env' = [env EXCEPT !.hasTime = HasTime(req.time)]
            /\ pc' = "sun"
            /\ UNCHANGED res
    /\ UNCHANGED <<variant, req, escaped, probe>>

\* MakeTime, GeoVector("Sun"), Ecliptic, signFromLon(sunEcl.elon)
Sun ==
    /\ pc = "sun"
    /\ calls' = [calls EXCEPT !.eph = @ + 1]
    /\ \E ok \in BOOLEAN, elon \in EclipticLons :
         IF ~ok
         THEN Catch("ephemeris failure") /\ UNCHANGED env
         ELSE /\ env' = [env EXCEPT !.sunSign = signFromLon(elon)]
              /\ pc' = IF env.hasTime THEN "moon" ELSE "respond"
              /\ UNCHANGED <<res, escaped>>
    /\ UNCHANGED <<variant, req, probe>>

\* Mutant of MoonAsc: the ascendant is left out.
MoonOnly ==
    /\ pc = "moon"
    /\ calls' = [calls EXCEPT !.eph = @ + 1]
    /\ \E elon \in EclipticLons :
         env' = [env EXCEPT !.moonSign = signFromLon(elon)]
    /\ pc' = "respond"
    /\ UNCHANGED <<variant, req, res, escaped, probe>>

\* if (hasTime) { moonSign = ...; ascSign = signFromLon(ascendantLongitudeDeg(...)) }
MoonAsc ==
    /\ pc = "moon"
    /\ calls' = [calls EXCEPT !.eph = @ + 1]
    /\ \E ok \in BOOLEAN, elon \in EclipticLons, st \in SiderealHours :
         IF ~ok
         THEN Catch("ephemeris failure") /\ UNCHANGED env
         ELSE /\ env' = [env EXCEPT
                           !.moonSign = signFromLon(elon),
                           !.ascSign  = signFromLon(
                               ascendantOf(variant, st, 0, env.lat.n, env.lon.n))]
              /\ pc' = "respond"
              /\ UNCHANGED <<res, escaped>>
    /\ UNCHANGED <<variant, req, probe>>

\* return res.status(200).json({ tz, [lat, lon,] sunSign, moonSign, ascSign });
Respond ==
    /\ pc = "respond"
    /\ res' = Sent(200, "chart",
                   [Blank EXCEPT
                      !.tz = env.tz,
                      !.lat = IF variant = "B" THEN env.lat ELSE Undef,
                      !.lon = IF variant = "B" THEN env.lon ELSE Undef,
                      !.sunSign = env.sunSign,
                      !.moonSign = env.moonSign,
                      !.ascSign = env.ascSign])
    /\ pc' = "done"
    /\ UNCHANGED <<variant, req, env, calls, escaped, probe>>

Next ==
    \/ \E r \in Requests : Receive(r)
    \/ setCors
    \/ MethodCheckA
    \/ MethodCheckB
    \/ MethodCheckC
    \/ ValidateA
    \/ ValidateB
    \/ ValidateC
    \/ Geocode
    \/ TzLookup
    \/ ResolveTime
    \/ Sun
    \/ MoonAsc
    \/ Respond

Spec == Init /\ [][Next]_vars

(***************************************************************************)
(* The angle helpers applied to inputs of their own                        *)
(***************************************************************************)
AngleInputs ==
    { v \in (-Deg(MaxAngleDeg))..Deg(MaxAngleDeg) : Representable(v) }

ProbeInputs ==
    { [NoProbe EXCEPT !.op = "angle", !.x = v] : v \in AngleInputs }
    \cup { [NoProbe EXCEPT !.op = "instant", !.st = h, !.lon = Deg(90) * q] :
              h \in SiderealHours, q \in -2..2 }

InitPure ==
    /\ variant = "A"
    /\ req = NoRequest
    /\ pc = "pure"
    /\ env = NoEnv
    /\ res = Blank
    /\ calls = NoCalls
    /\ escaped = FALSE
    /\ probe \in ProbeInputs

ApplyNorm360 ==
    /\ probe.op = "angle"
    /\ probe' = [probe EXCEPT !.op = "norm360", !.n = norm360(probe.x)]
    /\ UNCHANGED <<variant, req, pc, env, res, calls, escaped>>

ApplySignFromLon ==
    /\ probe.op = "angle"
    /\ probe' = [probe EXCEPT !.op = "signFromLon",
                              !.inl = inlineNorm(probe.x),
                              !.k = sectorIndex(inlineNorm(probe.x)),
                              !.sign = signFromLon(probe.x)]
    /\ UNCHANGED <<variant, req, pc, env, res, calls, escaped>>

ApplyAscendant ==
    /\ probe.op = "instant"
    /\ probe' = [probe EXCEPT
                   !.op = "ascendant",
                   !.ascA = ascendantLongitudeDeg(probe.st, 0, 0, probe.lon),
                   !.ascB = ascendantLongitudeDegGeo(probe.st, 0, 0, probe.lon),
                   !.ascC = ascendantLongitudeDegC(probe.st, 0, 0, probe.lon)]
    /\ UNCHANGED <<variant, req, pc, env, res, calls, escaped>>

NextPure ==
    \/ ApplyNorm360
    \/ ApplySignFromLon
    \/ ApplyAscendant

SpecPure == InitPure /\ [][NextPure]_vars

(***************************************************************************)
(* Properties                                                              *)
(***************************************************************************)
Signs == { SIGNS_FR[i] : i \in DOMAIN SIGNS_FR }

Answered200 == pc = "done" /\ req.method = "POST" /\ res.status = 200

WithColon(time) == time.t = "str" /\ \E i \in DOMAIN time.s : time.s[i] = ":"

\* C1, as stated: a POST answered 200 has moonSign and ascSign both null or
\* both non-null; without time both are null, with a time field both are signs.
C1_Original ==
    Answered200 =>
        /\ (res.moonSign = "null") <=> (res.ascSign = "null")
        /\ req.time = Undef => res.moonSign = "null" /\ res.ascSign = "null"
        /\ req.time # Undef => res.moonSign \in Signs /\ res.ascSign \in Signs

\* C1, amended: a POST answered 200 has moonSign and ascSign both null or both
\* signs; both are signs exactly when time is a string containing a colon, and
\* both are null when time is absent or a string without a colon.
C1_TimePolicy ==
    Answered200 =>
        /\ (res.moonSign = "null") <=> (res.ascSign = "null")
        /\ WithColon(req.time) => res.moonSign \in Signs /\ res.ascSign \in Signs
        /\ ~WithColon(req.time) => res.moonSign = "null" /\ res.ascSign = "null"

C1_Witness ==
    /\ Answered200
    /\ WithColon(req.time)
    /\ res.moonSign \in Signs /\ res.ascSign \in Signs

CompleteChart ==
    /\ res.status = 200 /\ res.kind = "chart"
    /\ res.tz # "" /\ res.sunSign \in Signs
    /\ \/ res.moonSign = "null" /\ res.ascSign = "null"
       \/ res.moonSign \in Signs /\ res.ascSign \in Signs

ErrorBody ==
    /\ res.kind = "error" /\ res.error # ""
    /\ res.status \in {400, 405, 500}
    /\ res.tz = "" /\ res.sunSign = "undefined"
    /\ res.moonSign = "undefined" /\ res.ascSign = "undefined"

\* C2, as stated: every request gets exactly one response, no exception
\* escapes, and the response is a complete chart or an error body.
C2_Original ==
    /\ res.sent <= 1 /\ ~escaped
    /\ pc = "done" => res.sent = 1 /\ (CompleteChart \/ ErrorBody)

\* C2, amended: every request gets exactly one response and no exception
\* escapes; the response is a complete chart, an error body, the health-check
\* body of a GET or the empty reply to an OPTIONS preflight, never a chart
\* with fields missing.
C2_OneCompleteResponse ==
    /\ res.sent <= 1 /\ ~escaped
    /\ pc # "done" => res.sent = 0
    /\ pc = "done" =>
         /\ res.sent = 1
         /\ \/ CompleteChart
            \/ ErrorBody
            \/ res.kind = "health" /\ res.status = 200 /\ req.method = "GET"
            \/ res.kind = "empty" /\ res.status = 200 /\ req.method = "OPTIONS"

\* a collaborator failed after the sun sign was computed
C2_Witness ==
    /\ pc = "done"
    /\ env.sunSign \in Signs /\ calls.eph = 2
    /\ res.status = 500 /\ res.sent = 1

Feb30 == Str(<< "2", "0", "2", "1", "-", "0", "2", "-", "3", "0" >>)

\* C3: a POST whose date is 2021-02-30 is answered 400 whatever the other fields.
C3_Original ==
    (pc = "done" /\ req.method = "POST" /\ req.date = Feb30) => res.status = 400

\* C4: a place the geocoder finds no match for is answered 400 with the
\* "Ville, Pays" hint, not 500.
C4_Original ==
    (pc = "done" /\ env.geo = "nomatch") =>
        res.status = 400 /\ res.error = GeocodageImpossible

InRange(lat, lon) ==
    /\ ~lat.nan /\ ~lon.nan
    /\ lat.n >= -Deg(90) /\ lat.n <= Deg(90)
    /\ lon.n >= -Deg(180) /\ lon.n <= Deg(180)

NoPlace == req.place.t # "str" \/ \A i \in DOMAIN req.place.s : req.place.s[i] = " "

\* C5: a POST with a date whose location is missing (no numeric lat/lon and no
\* place), out of range, or geocoded to coordinates that are not valid numbers
\* is answered 400.
C5_Original ==
    (pc = "done" /\ req.method = "POST" /\ ~Falsy(req.date)) =>
        /\ ((~IsNumber(req.lat) \/ ~IsNumber(req.lon)) /\ (variant # "B" \/ NoPlace))
              => res.status = 400
        /\ (IsNumber(req.lat) /\ IsNumber(req.lon) /\ ~InRange(req.lat, req.lon))
              => res.status = 400
        /\ env.geo = "matchNaN" => res.status = 400

\* C6: in every variant GET is answered 200 with the health-check body, POST is
\* processed as a chart query, any other method but OPTIONS is answered 405, and
\* nothing of the body is used before the method is decided.
C6_Original ==
    pc = "done" =>
        /\ req.method = "GET" => res.status = 200 /\ res.kind = "health"
        /\ req.method = "POST" => res.kind \in {"chart", "error"} /\ res.status # 405
        /\ req.method \notin {"GET", "POST", "OPTIONS"} =>
              res.status = 405 /\ res.kind = "error"
        /\ req.method # "POST" => calls = NoCalls /\ env = NoEnv

\* C7: signFromLon returns the sign at index k = floor(norm360(lon) / 30), k in
\* 0..11; 0 gives the first sign, 30 the second, 359 the twelfth; the inline
\* normalization agrees with norm360.
C7_Original ==
    probe.op = "signFromLon" =>
        /\ probe.k \in 0..11
        /\ probe.sign = SIGNS_FR[probe.k + 1]
        /\ probe.inl = norm360(probe.x)
        /\ probe.k = norm360(probe.x) \div Deg(30)
        /\ probe.x = Deg(0) => probe.sign = SIGNS_FR[1]
        /\ probe.x = Deg(30) => probe.sign = SIGNS_FR[2]
        /\ probe.x = Deg(359) => probe.sign = SIGNS_FR[12]

\* C8: norm360(x) is at least 0 and less than 360, and norm360(x) equals
\* norm360(x + 360 k) for every integer k.
C8_Original ==
    probe.op = "norm360" =>
        /\ probe.n >= 0 /\ probe.n < Deg(360)
        /\ \A k \in -2..2 :
              Representable(probe.x + k * Deg(360)) =>
                  norm360(probe.x + k * Deg(360)) = probe.n

\* atan2(sin(LST) cos(eps) - tan(latitude) sin(eps), cos(LST)), LST = GMST + longitude
StatedAscendant(stHours, T, latDeg, lonDeg) ==
    LET lst == FAdd(gmstDegrees(stHours), lonDeg)
        eps == meanObliquityDeg(T)
    IN  norm360(atan2Deg(
            sinSgn(lst) * cosSgn(eps) - tanSgn(latDeg) * sinSgn(eps),
            cosSgn(lst)))

\* C9: every variant's ascendantLongitudeDeg returns the stated formula, so all
\* variants return the same ascendant longitude and sign.
C9_Original ==
    probe.op = "ascendant" =>
        /\ probe.ascA = StatedAscendant(probe.st, 0, 0, probe.lon)
        /\ probe.ascB = StatedAscendant(probe.st, 0, 0, probe.lon)
        /\ probe.ascC = StatedAscendant(probe.st, 0, 0, probe.lon)
        /\ signFromLon(probe.ascA) = signFromLon(probe.ascB)
        /\ signFromLon(probe.ascA) = signFromLon(probe.ascC)

\* C10: the geocoder is called at most once per request, only by the geocoding
\* handler for a POST with a date, without numeric lat and lon, and with a
\* non-blank place; numeric lat and lon are used as given; no collaborator is
\* called for a request that is not a POST or has no date.
C10_GeocodeOnce ==
    /\ calls.geo <= 1
    /\ calls.geo = 1 =>
          /\ variant = "B"
          /\ req.method = "POST"
          /\ ~Falsy(req.date)
          /\ ~(IsNumber(req.lat) /\ IsNumber(req.lon))
          /\ req.place.t = "str"
          /\ \E i \in DOMAIN req.place.s : req.place.s[i] # " "
    /\ (IsNumber(req.lat) /\ IsNumber(req.lon)) =>
          /\ calls.geo = 0
          /\ pc \in {"tz", "time", "sun", "moon", "respond"} =>
                env.lat = req.lat /\ env.lon = req.lon
          /\ (variant = "B" /\ res.kind = "chart") =>
                res.lat = req.lat /\ res.lon = req.lon
    /\ (req.method # "POST" \/ Falsy(req.date)) => calls = NoCalls

C10_Witness ==
    /\ pc = "done" /\ calls.geo = 1
    /\ res.status = 200 /\ res.kind = "chart"
    /\ res.lat = Num(0) /\ res.lon = Num(-Deg(90))

====
